---- MODULE Spec2Model ----
(***************************************************************************)
(* Model of the GPOS 'halt' feature fix scripts of reuixiy/fonts:          *)
(*   scripts/halt-fix.py       fix_halt_feature, main                      *)
(*   scripts/lxgw-halt-fix.py  fix_lxgw_halt_feature, main                 *)
(*   scripts/utils.py          load_font, save_font                        *)
(* One behaviour is a sequence of invocations of one script on one font    *)
(* file.  The scan over feature records, lookups, subtables and target     *)
(* glyphs is modelled one loop iteration per step.                         *)
(***************************************************************************)
EXTENDS Integers, Sequences, FiniteSets, TLC

(***************************************************************************)
(* Bounds                                                                  *)
(***************************************************************************)
MaxLen == 3          \* longest Coverage.glyphs / Value list in a subtable
MaxSubTables == 2    \* most subtables in one lookup
MaxFeatures == 2     \* most records in FeatureList.FeatureRecord
MaxRuns == 2         \* invocations of the script on the same file

Glyphs == {"A", "B", "C"}
None == ""           \* cmap.get() of an unmapped code point (falsy)
Tags == {"halt", "kern"}

Range(s) == {s[i] : i \in 1..Len(s)}

(***************************************************************************)
(* target_char / target_chars.  halt-fix.py has one character, the lxgw    *)
(* script a list (six in the source, two here).                            *)
(***************************************************************************)
TargetChars(s) == IF s = "halt" THEN <<"bang">> ELSE <<"colon", "bang">>

(***************************************************************************)
(* Pure helpers of the scan                                                *)
(***************************************************************************)
CmapGet(cmap, ch) == IF ch \in DOMAIN cmap THEN cmap[ch] ELSE None

RECURSIVE ResolveTargets(_, _)
ResolveTargets(cmap, chars) ==
    IF chars = <<>> THEN <<>>
    ELSE LET gname == CmapGet(cmap, Head(chars))
             rest == ResolveTargets(cmap, Tail(chars))
         IN IF gname # None
               THEN <<[char |-> Head(chars), gname |-> gname]>> \o rest
               ELSE rest

\* list.index(x): position of the first occurrence (0-based, as in Python)
IndexOf(glyphs, gname) ==
    (CHOOSE i \in 1..Len(glyphs) :
        /\ glyphs[i] = gname
        /\ \A j \in 1..(i - 1) : glyphs[j] # gname) - 1

\* variant: the 0-based index is used as if it were one further
DelAtOffByOne(seq, idx) ==
    [i \in 1..(Len(seq) - 1) |-> IF i <= idx + 1 THEN seq[i] ELSE seq[i + 1]]

\* del seq[idx] with a 0-based idx
DelAt(seq, idx) ==
    [i \in 1..(Len(seq) - 1) |-> IF i <= idx THEN seq[i] ELSE seq[i + 1]]

\* gname in cov.glyphs, for a subtable that has a Coverage
InCoverage(sub, gname) == gname \in Range(sub.glyphs)

\* variant: the glyph leaves Coverage, Value is never touched
RemoveGlyphKeepValue(sub, gname) ==
    [sub EXCEPT !.glyphs = DelAt(sub.glyphs, IndexOf(sub.glyphs, gname))]

\* variant: the last value record is dropped instead of the one at idx
RemoveGlyphPopValue(sub, gname) ==
    LET idx == IndexOf(sub.glyphs, gname)
        cov == [sub EXCEPT !.glyphs = DelAt(sub.glyphs, idx)]
    IN IF cov.Format = 2 /\ cov.hasValue /\ idx < Len(cov.Value)
          THEN LET v == SubSeq(cov.Value, 1, Len(cov.Value) - 1)
               IN [cov EXCEPT !.Value = v, !.ValueCount = Len(v)]
          ELSE cov

\* variant: the Value guard is taken before the Coverage deletion, so a
\* format-2 subtable without a matching value record is left alone
RemoveGlyphGuardFirst(sub, gname) ==
    LET idx == IndexOf(sub.glyphs, gname)
    IN IF sub.Format = 2 /\ ~(sub.hasValue /\ idx < Len(sub.Value))
          THEN sub
          ELSE LET cov == [sub EXCEPT !.glyphs = DelAt(sub.glyphs, idx)]
               IN IF cov.Format = 2
                     THEN LET v == DelAt(cov.Value, idx)
                          IN [cov EXCEPT !.Value = v, !.ValueCount = Len(v)]
                     ELSE cov

\* the removal of one glyph from one subtable: del cov.glyphs[idx], and for
\* Format 2 with a Value list longer than idx, del sub.Value[idx] and the
\* ValueCount update
RemoveGlyph(sub, gname) ==
    LET idx == IndexOf(sub.glyphs, gname)
        cov == [sub EXCEPT !.glyphs = DelAt(sub.glyphs, idx)]
    IN IF cov.Format = 2 /\ cov.hasValue /\ idx < Len(cov.Value)
          THEN LET v == DelAt(cov.Value, idx)
               IN [cov EXCEPT !.Value = v, !.ValueCount = Len(v)]
          ELSE cov

\* variant: the increment is lost
CountRemovalLost(n) == n

\* variant: a flag instead of a counter
CountRemovalFlag(n) == 1

\* total_removals += 1
CountRemoval(n) == n + 1

IsHaltFeature(feat) == feat.FeatureTag = "halt"

\* variant: no break, the feature loop goes on to the next record
AfterHaltFeatureNoBreak(i, n) == i + 1

\* the 'break' after the halt feature: the feature loop is left
AfterHaltFeature(i, n) == n + 1

\* variant: one message for both cases in both scripts
NoRemovalReasonMerged(s, found) == "NoMatchingEntries"

\* log message of the final "nothing removed" return
NoRemovalReason(s, found) ==
    IF s = "lxgw" /\ ~found THEN "FeatureNotFound" ELSE "NoMatchingEntries"

\* variant: "no modifications" exits like a failure
ExitCodeOfStrict(success) == IF success THEN 0 ELSE 1

\* sys.exit code of main after the fix function returned
ExitCodeOf(success) == IF success THEN 0 ELSE 0

SuccessMessage(success) ==
    IF success THEN "FixCompleted" ELSE "NoModificationsNeeded"

\* variant: nothing is written
SaveFontNoWrite(f, d) == d

\* font.save(font_path): the file then holds the in-memory font
SaveFont(f, d) == [state |-> "ok", font |-> f]

(***************************************************************************)
(* Fonts                                                                   *)
(***************************************************************************)
SubTable(hasCov, glyphs, fmt, hasVal, val) ==
    [hasCoverage |-> hasCov, glyphs |-> glyphs, Format |-> fmt,
     hasValue |-> hasVal, Value |-> val, ValueCount |-> Len(val)]

NoCoverageSub == SubTable(FALSE, <<>>, 1, FALSE, <<>>)

Injective(s) == \A i, j \in 1..Len(s) : s[i] = s[j] => i = j

\* Coverage lists: duplicate-free glyph lists (OpenType Coverage)
AllCoverages ==
    UNION {{s \in [1..k -> Glyphs] : Injective(s)} : k \in 0..MaxLen}

\* value records are named by the position they were loaded at
ValueSeqs == {[i \in 1..k |-> i] : k \in 0..MaxLen}

RichSubTables ==
    {NoCoverageSub} \cup
    {SubTable(TRUE, c, f, FALSE, <<>>) : c \in AllCoverages, f \in 0..2} \cup
    {SubTable(TRUE, c, f, TRUE, v) :
        c \in AllCoverages, f \in 0..2, v \in ValueSeqs}

PlainSubTables ==
    { SubTable(TRUE, <<"A", "B">>, 2, TRUE, <<1, 2>>),
      SubTable(TRUE, <<"C", "A">>, 2, FALSE, <<>>),
      NoCoverageSub }

SeqsUpTo(S, n) == UNION {[1..k -> S] : k \in 0..n}

FeatureRec(tag, idxs) == [FeatureTag |-> tag, LookupListIndex |-> idxs]

\* LookupListIndex values are 0-based; 2 is out of range of two lookups
IndexLists == {<<>>, <<0>>, <<1>>, <<0, 1>>, <<0, 0>>, <<0, 2>>}

MkFont(gpos, cmap, feats, lookups) ==
    [hasGPOS |-> gpos, cmap |-> cmap, FeatureRecord |-> feats,
     Lookup |-> lookups]

Cmaps(s) == [Range(TargetChars(s)) -> Glyphs \cup {None}]

PlainCmaps(s) ==
    {m \in Cmaps(s) : m["bang"] = "A" /\
        ("colon" \in DOMAIN m => m["colon"] \in {"B", None})}

\* one halt feature, one lookup, one subtable of any shape
ShapeFonts(s) ==
    {MkFont(TRUE, m, <<FeatureRec("halt", <<0>>)>>, <<<<sub>>>>) :
        m \in Cmaps(s), sub \in RichSubTables}

\* one halt feature over two lookups of several subtables
LookupFonts(s) ==
    {MkFont(TRUE, m, <<FeatureRec("halt", <<0, 1>>)>>, <<l1, l2>>) :
        m \in PlainCmaps(s),
        l1 \in SeqsUpTo(PlainSubTables, MaxSubTables),
        l2 \in SeqsUpTo(PlainSubTables, MaxSubTables)}

\* several feature records over two one-subtable lookups
FeatureFonts(s) ==
    {MkFont(TRUE, m, feats,
            <<<<SubTable(TRUE, <<"A", "B">>, 2, TRUE, <<1, 2>>)>>,
              <<SubTable(TRUE, <<"B", "C", "A">>, 2, TRUE, <<1, 2, 3>>)>>>>) :
        m \in PlainCmaps(s),
        feats \in SeqsUpTo({FeatureRec(t, x) : t \in Tags, x \in IndexLists},
                           MaxFeatures)}

\* no GPOS table at all
BareFonts(s) == {MkFont(FALSE, m, <<>>, <<>>) : m \in PlainCmaps(s)}

Fonts(s) == ShapeFonts(s) \cup LookupFonts(s) \cup FeatureFonts(s)
              \cup BareFonts(s)

NoFont == MkFont(FALSE, <<>>, <<>>, <<>>)

(***************************************************************************)
(* State                                                                   *)
(***************************************************************************)
VARIABLES
    script,               \* "halt": halt-fix.py, "lxgw": lxgw-halt-fix.py
    hasArg,               \* len(sys.argv) >= 2
    disk,                 \* the file at font_path
    font,                 \* the TTFont in memory
    loaded,               \* the font as load_font returned it in this run
    pc,                   \* position of the running script
    fi, li, si, ti,       \* positions of the four nested loops (1-based)
    target_glyphs,
    total_removals, removed_count, halt_feature_found,   \* lxgw script
    removed,                                             \* halt script
    result,               \* "True"/"False" once the fix function returned
    reason,               \* the warning logged with a False return
    exitCode, message,    \* sys.exit code and the last message of main
    saves,                \* font.save calls completed in this run
    run,                  \* number of the current invocation
    prev                  \* outcome of the previous invocation

locals == <<fi, li, si, ti, target_glyphs, total_removals, removed_count,
            halt_feature_found, removed>>
outcome == <<result, reason, exitCode, message>>
vars == <<script, hasArg, disk, font, loaded, pc, locals, outcome, saves,
          run, prev>>

NoPrev == [result |-> "none", exitCode |-> -1,
           disk |-> [state |-> "missing", font |-> NoFont]]

Init ==
    /\ script \in {"halt", "lxgw"}
    /\ \/ /\ hasArg = FALSE
          /\ disk = [state |-> "missing", font |-> NoFont]
       \/ /\ hasArg = TRUE
          /\ \/ disk \in {[state |-> st, font |-> NoFont] :
                            st \in {"missing", "corrupt"}}
             \/ disk \in {[state |-> "ok", font |-> f] : f \in Fonts(script)}
    /\ font = NoFont
    /\ loaded = NoFont
    /\ pc = "main"
    /\ fi = 0 /\ li = 0 /\ si = 0 /\ ti = 0
    /\ target_glyphs = <<>>
    /\ total_removals = 0 /\ removed_count = 0
    /\ halt_feature_found = FALSE
    /\ removed = FALSE
    /\ result = "none" /\ reason = "none"
    /\ exitCode = -1 /\ message = "none"
    /\ saves = 0
    /\ run = 1
    /\ prev = NoPrev

(***************************************************************************)
(* Positions of the scan                                                   *)
(***************************************************************************)
Feats == font.FeatureRecord
CurFeat == Feats[fi]
CurIdx == CurFeat.LookupListIndex[li]        \* lookup_idx, 0-based
CurSubs == font.Lookup[CurIdx + 1]           \* lookup.SubTable
CurSub == CurSubs[si]
CurGname == target_glyphs[ti].gname

Exit(code, msg) ==
    /\ pc' = "exit"
    /\ exitCode' = code
    /\ message' = msg

Return(val, why) ==
    /\ pc' = "returned"
    /\ result' = val
    /\ reason' = why

(***************************************************************************)
(* main: argument check                                                    *)
(***************************************************************************)
MainUsage ==
    /\ pc = "main" /\ ~hasArg
    /\ Exit(1, "Usage")
    /\ UNCHANGED <<script, hasArg, disk, font, loaded, locals, result,
                   reason, saves, run, prev>>

MainCall ==
    /\ pc = "main" /\ hasArg
    /\ pc' = "load"
    /\ UNCHANGED <<script, hasArg, disk, font, loaded, locals, outcome,
                   saves, run, prev>>

(***************************************************************************)
(* load_font                                                               *)
(***************************************************************************)
LoadFont ==
    /\ pc = "load" /\ disk.state = "ok"
    /\ font' = disk.font
    /\ loaded' = disk.font
    /\ pc' = "check_gpos"
    /\ UNCHANGED <<script, hasArg, disk, locals, outcome, saves, run, prev>>

\* utils.load_font prints and exits; the fallback load_font lets the
\* exception reach main's except clauses
LoadFail ==
    /\ pc = "load" /\ disk.state # "ok"
    /\ \E utils \in BOOLEAN :
          Exit(1, IF utils THEN "FailedToLoad"
                  ELSE IF disk.state = "missing" THEN "FontFileNotFound"
                  ELSE "ErrorProcessing")
    /\ UNCHANGED <<script, hasArg, disk, font, loaded, locals, result,
                   reason, saves, run, prev>>

(***************************************************************************)
(* the fix function up to the scan                                         *)
(***************************************************************************)
NoGPOS ==
    /\ pc = "check_gpos" /\ ~font.hasGPOS
    /\ Return("False", "NoPositioningTable")
    /\ UNCHANGED <<script, hasArg, disk, font, loaded, locals, exitCode,
                   message, saves, run, prev>>

Resolve ==
    /\ pc = "check_gpos" /\ font.hasGPOS
    /\ LET tg == ResolveTargets(font.cmap, TargetChars(script))
       IN /\ target_glyphs' = tg
          /\ IF tg = <<>>
                THEN /\ Return("False", "NoGlyphsResolved")
                     /\ fi' = fi
                ELSE /\ pc' = "features"
                     /\ fi' = 1
                     /\ UNCHANGED <<result, reason>>
    /\ UNCHANGED <<script, hasArg, disk, font, loaded, li, si, ti,
                   total_removals, removed_count, halt_feature_found,
                   removed, exitCode, message, saves, run, prev>>

(***************************************************************************)
(* for feat in feature_list.FeatureRecord                                  *)
(***************************************************************************)
SkipFeature ==
    /\ pc = "features" /\ fi <= Len(Feats) /\ ~IsHaltFeature(CurFeat)
    /\ fi' = fi + 1
    /\ UNCHANGED <<script, hasArg, disk, font, loaded, pc, li, si, ti,
                   target_glyphs, total_removals, removed_count,
                   halt_feature_found, removed, outcome, saves, run, prev>>

EnterHalt ==
    /\ pc = "features" /\ fi <= Len(Feats) /\ IsHaltFeature(CurFeat)
    /\ halt_feature_found' = (IF script = "lxgw" THEN TRUE
                              ELSE halt_feature_found)
    /\ li' = 1
    /\ pc' = "lookups"
    /\ UNCHANGED <<script, hasArg, disk, font, loaded, fi, si, ti,
                   target_glyphs, total_removals, removed_count, removed,
                   outcome, saves, run, prev>>

FeaturesDone ==
    /\ pc = "features" /\ fi > Len(Feats)
    /\ pc' = "after_scan"
    /\ UNCHANGED <<script, hasArg, disk, font, loaded, locals, outcome,
                   saves, run, prev>>

(***************************************************************************)
(* for lookup_idx in feat.Feature.LookupListIndex                          *)
(***************************************************************************)
EnterLookup ==
    /\ pc = "lookups" /\ li <= Len(CurFeat.LookupListIndex)
    /\ CurIdx < Len(font.Lookup)
    /\ si' = 1
    /\ pc' = "subtables"
    /\ UNCHANGED <<script, hasArg, disk, font, loaded, fi, li, ti,
                   target_glyphs, total_removals, removed_count,
                   halt_feature_found, removed, outcome, saves, run, prev>>

\* lookup_list.Lookup[lookup_idx] raises IndexError, caught in main
LookupFault ==
    /\ pc = "lookups" /\ li <= Len(CurFeat.LookupListIndex)
    /\ CurIdx >= Len(font.Lookup)
    /\ Exit(1, "ErrorProcessing")
    /\ UNCHANGED <<script, hasArg, disk, font, loaded, locals, result,
                   reason, saves, run, prev>>

\* the lookups of the halt feature are exhausted: break
LookupsDone ==
    /\ pc = "lookups" /\ li > Len(CurFeat.LookupListIndex)
    /\ fi' = AfterHaltFeature(fi, Len(Feats))
    /\ pc' = "features"
    /\ UNCHANGED <<script, hasArg, disk, font, loaded, li, si, ti,
                   target_glyphs, total_removals, removed_count,
                   halt_feature_found, removed, outcome, saves, run, prev>>

(***************************************************************************)
(* for sub_idx, sub in enumerate(lookup.SubTable)                          *)
(***************************************************************************)
SkipSubTable ==
    /\ pc = "subtables" /\ si <= Len(CurSubs) /\ ~CurSub.hasCoverage
    /\ si' = si + 1
    /\ UNCHANGED <<script, hasArg, disk, font, loaded, pc, fi, li, ti,
                   target_glyphs, total_removals, removed_count,
                   halt_feature_found, removed, outcome, saves, run, prev>>

EnterSubTable ==
    /\ pc = "subtables" /\ si <= Len(CurSubs) /\ CurSub.hasCoverage
    /\ ti' = 1
    /\ pc' = "targets"
    /\ UNCHANGED <<script, hasArg, disk, font, loaded, fi, li, si,
                   target_glyphs, total_removals, removed_count,
                   halt_feature_found, removed, outcome, saves, run, prev>>

SubTablesDone ==
    /\ pc = "subtables" /\ si > Len(CurSubs)
    /\ removed_count' = (IF script = "lxgw" /\ total_removals > 0
                         THEN removed_count + 1 ELSE removed_count)
    /\ li' = li + 1
    /\ pc' = "lookups"
    /\ UNCHANGED <<script, hasArg, disk, font, loaded, fi, si, ti,
                   target_glyphs, total_removals, halt_feature_found,
                   removed, outcome, saves, run, prev>>

(***************************************************************************)
(* for char, gname in target_glyphs.  halt-fix.py tests its one gname      *)
(* against the subtable (lines 79-95); it is run here as the same loop     *)
(* over a one-element target list.                                         *)
(***************************************************************************)
SkipTarget ==
    /\ pc = "targets" /\ ti <= Len(target_glyphs)
    /\ ~InCoverage(CurSub, CurGname)
    /\ ti' = ti + 1
    /\ UNCHANGED <<script, hasArg, disk, font, loaded, pc, fi, li, si,
                   target_glyphs, total_removals, removed_count,
                   halt_feature_found, removed, outcome, saves, run, prev>>

RemoveTarget ==
    /\ pc = "targets" /\ ti <= Len(target_glyphs)
    /\ InCoverage(CurSub, CurGname)
    /\ font' = [font EXCEPT !.Lookup[CurIdx + 1][si] =
                                RemoveGlyph(CurSub, CurGname)]
    /\ total_removals' = (IF script = "lxgw" THEN CountRemoval(total_removals)
                          ELSE total_removals)
    /\ removed' = (IF script = "halt" THEN TRUE ELSE removed)
    /\ ti' = ti + 1
    /\ UNCHANGED <<script, hasArg, disk, loaded, pc, fi, li, si,
                   target_glyphs, removed_count, halt_feature_found,
                   outcome, saves, run, prev>>

TargetsDone ==
    /\ pc = "targets" /\ ti > Len(target_glyphs)
    /\ si' = si + 1
    /\ pc' = "subtables"
    /\ UNCHANGED <<script, hasArg, disk, font, loaded, fi, li, ti,
                   target_glyphs, total_removals, removed_count,
                   halt_feature_found, removed, outcome, saves, run, prev>>

(***************************************************************************)
(* after the scan                                                          *)
(***************************************************************************)
\* variant: the "nothing removed" test is missing
AnyRemovedAlways == TRUE

\* total_removals == 0 / not removed, negated
AnyRemoved == IF script = "lxgw" THEN total_removals > 0 ELSE removed

NothingRemoved ==
    /\ pc = "after_scan"
    /\ ~(script = "lxgw" /\ halt_feature_found /\ AnyRemoved)
    /\ ~(script = "halt" /\ AnyRemoved)
    /\ Return("False", NoRemovalReason(script, halt_feature_found))
    /\ UNCHANGED <<script, hasArg, disk, font, loaded, locals, exitCode,
                   message, saves, run, prev>>

GoSave ==
    /\ pc = "after_scan"
    /\ \/ script = "lxgw" /\ halt_feature_found /\ AnyRemoved
       \/ script = "halt" /\ AnyRemoved
    /\ pc' = "save"
    /\ UNCHANGED <<script, hasArg, disk, font, loaded, locals, outcome,
                   saves, run, prev>>

(***************************************************************************)
(* save_font(font, font_path, backup=False)                                *)
(***************************************************************************)
SaveOk ==
    /\ pc = "save"
    /\ disk' = SaveFont(font, disk)
    /\ saves' = saves + 1
    /\ Return("True", "none")
    /\ UNCHANGED <<script, hasArg, font, loaded, locals, exitCode, message,
                   run, prev>>

\* font.save raises: utils.save_font prints and exits, the fallback lets
\* main's except clause report it; the file is left as it was or unreadable
SaveFail ==
    /\ pc = "save"
    /\ \E broken \in BOOLEAN :
          disk' = IF broken THEN [state |-> "corrupt", font |-> NoFont]
                  ELSE disk
    /\ \E utils \in BOOLEAN :
          Exit(1, IF utils THEN "FailedToSave" ELSE "ErrorProcessing")
    /\ UNCHANGED <<script, hasArg, font, loaded, locals, result, reason,
                   saves, run, prev>>

(***************************************************************************)
(* main after the fix function returned                                    *)
(***************************************************************************)
MainExit ==
    /\ pc = "returned"
    /\ LET success == (result = "True")
       IN Exit(ExitCodeOf(success), SuccessMessage(success))
    /\ UNCHANGED <<script, hasArg, disk, font, loaded, locals, result,
                   reason, saves, run, prev>>

(***************************************************************************)
(* the script is invoked again on the same path                            *)
(***************************************************************************)
Rerun ==
    /\ pc = "exit" /\ run < MaxRuns
    /\ prev' = [result |-> result, exitCode |-> exitCode, disk |-> disk]
    /\ run' = run + 1
    /\ font' = NoFont
    /\ loaded' = NoFont
    /\ pc' = "main"
    /\ fi' = 0 /\ li' = 0 /\ si' = 0 /\ ti' = 0
    /\ target_glyphs' = <<>>
    /\ total_removals' = 0 /\ removed_count' = 0
    /\ halt_feature_found' = FALSE
    /\ removed' = FALSE
    /\ result' = "none" /\ reason' = "none"
    /\ exitCode' = -1 /\ message' = "none"
    /\ saves' = 0
    /\ UNCHANGED <<script, hasArg, disk>>

Next ==
    \/ MainUsage \/ MainCall
    \/ LoadFont \/ LoadFail
    \/ NoGPOS \/ Resolve
    \/ SkipFeature \/ EnterHalt \/ FeaturesDone
    \/ EnterLookup \/ LookupFault \/ LookupsDone
    \/ SkipSubTable \/ EnterSubTable \/ SubTablesDone
    \/ SkipTarget \/ RemoveTarget \/ TargetsDone
    \/ NothingRemoved \/ GoSave
    \/ SaveOk \/ SaveFail
    \/ MainExit
    \/ Rerun

Spec == Init /\ [][Next]_vars

(***************************************************************************)
(* Vocabulary of the properties, all in terms of the font as loaded        *)
(***************************************************************************)
\* the glyphs the target characters resolve to
Resolved ==
    {CmapGet(loaded.cmap, c) : c \in Range(TargetChars(script))} \ {None}

HaltRecords ==
    {i \in 1..Len(loaded.FeatureRecord) :
        loaded.FeatureRecord[i].FeatureTag = "halt"}

\* 1-based positions in Lookup of the lookups the first halt record names
HaltLookups ==
    IF HaltRecords = {} THEN {}
    ELSE LET first == CHOOSE i \in HaltRecords : \A j \in HaltRecords : i <= j
             idxs == loaded.FeatureRecord[first].LookupListIndex
         IN {idxs[k] + 1 : k \in 1..Len(idxs)} \cap (1..Len(loaded.Lookup))

\* positions <<l, s>> of all subtables
SubPositions ==
    {p \in (1..Len(loaded.Lookup)) \X (1..MaxSubTables) :
        p[2] <= Len(loaded.Lookup[p[1]])}

Sub0(p) == loaded.Lookup[p[1]][p[2]]
Sub1(p) == font.Lookup[p[1]][p[2]]

\* a format-2 subtable whose Coverage and Value lists were loaded aligned
Aligned(sub) ==
    /\ sub.hasCoverage /\ sub.Format = 2 /\ sub.hasValue
    /\ Len(sub.glyphs) = Len(sub.Value)

\* a subtable that claims format 2 but has no value record for position idx
LacksValue(sub, idx) ==
    sub.hasCoverage /\ sub.Format = 2 /\ (~sub.hasValue \/ idx >= Len(sub.Value))

Pairs(sub) == [i \in 1..Len(sub.glyphs) |-> <<sub.glyphs[i], sub.Value[i]>>]

KeepPair(p) == p[1] \notin Resolved

ScanFinished == pc \in {"after_scan", "save"} \/ result \in {"True", "False"}

(***************************************************************************)
(* C1: a format-2 subtable loaded with as many Coverage glyphs as Value    *)
(* records keeps len(Coverage.glyphs) = len(Value) = ValueCount in every   *)
(* state, hence after every single glyph removal of either script.         *)
(***************************************************************************)
C1_LengthInvariant ==
    \A p \in SubPositions :
        Aligned(Sub0(p)) =>
            /\ Len(Sub1(p).glyphs) = Len(Sub1(p).Value)
            /\ Sub1(p).ValueCount = Len(Sub1(p).Value)

\* in the middle of the scan an aligned subtable has lost a glyph
C1_Witness ==
    /\ pc = "targets"
    /\ \E p \in SubPositions :
          Aligned(Sub0(p)) /\ Len(Sub1(p).glyphs) < Len(Sub0(p).glyphs)

(***************************************************************************)
(* C2: when the fix function has returned True, no resolved target glyph   *)
(* is left in the Coverage of any subtable of any lookup the (first) halt  *)
(* record references; unresolved code points do not prevent this.          *)
(***************************************************************************)
C2_OutputGuarantee ==
    result = "True" =>
        \A p \in SubPositions :
            (p[1] \in HaltLookups /\ Sub1(p).hasCoverage) =>
                Range(Sub1(p).glyphs) \cap Resolved = {}

\* True was returned although one target character did not resolve, and the
\* resolved glyph was covered by two subtables of the halt feature
C2_Witness ==
    /\ result = "True"
    /\ \E c \in Range(TargetChars(script)) : CmapGet(loaded.cmap, c) = None
    /\ \E p, q \in SubPositions :
          /\ p # q /\ p[1] \in HaltLookups /\ q[1] \in HaltLookups
          /\ Sub0(p).hasCoverage /\ Sub0(q).hasCoverage
          /\ Range(Sub0(p).glyphs) \cap Range(Sub0(q).glyphs) \cap Resolved # {}

(***************************************************************************)
(* C3: when the fix function has returned False, the font in memory is     *)
(* what load_font returned, the file is what it was, and nothing was saved.*)
(***************************************************************************)
C3_FalseLeavesFont ==
    result = "False" =>
        /\ font = loaded
        /\ disk = [state |-> "ok", font |-> loaded]
        /\ saves = 0

\* False after a complete scan of a halt feature whose coverages hold glyphs
C3_Witness ==
    /\ result = "False" /\ reason = "NoMatchingEntries"
    /\ \E p \in SubPositions :
          p[1] \in HaltLookups /\ Sub0(p).hasCoverage /\ Sub0(p).glyphs # <<>>

(***************************************************************************)
(* C4: once the scan is over, every aligned format-2 subtable of the halt  *)
(* feature holds exactly its original (glyph, value) pairs minus those of  *)
(* the target glyphs, in the original order.  Coverage [A, B, C] with      *)
(* Value [v1, v2, v3] and target B becomes [A, C], [v1, v3], with one      *)
(* removal counted and True returned.                                      *)
(***************************************************************************)
C4_Example ==
    /\ loaded.Lookup = <<<<SubTable(TRUE, <<"A", "B", "C">>, 2, TRUE,
                                    <<1, 2, 3>>)>>>>
    /\ Resolved = {"B"}

C4_PairsFiltered ==
    ScanFinished =>
        /\ \A p \in SubPositions :
              (p[1] \in HaltLookups /\ Aligned(Sub0(p))) =>
                  /\ Len(Sub1(p).glyphs) = Len(Sub1(p).Value)
                  /\ Pairs(Sub1(p)) = SelectSeq(Pairs(Sub0(p)), KeepPair)
        /\ C4_Example =>
              /\ font.Lookup[1][1].glyphs = <<"A", "C">>
              /\ font.Lookup[1][1].Value = <<1, 3>>
              /\ script = "lxgw" => total_removals = 1
              /\ result \in {"True", "False"} => result = "True"

\* the example of the claim, after the fix function returned
C4_Witness ==
    /\ C4_Example
    /\ script = "lxgw" /\ total_removals = 1
    /\ result = "True"
    /\ font.Lookup[1][1].glyphs = <<"A", "C">>
    /\ font.Lookup[1][1].Value = <<1, 3>>

(***************************************************************************)
(* C5: a run that follows a run in which the fix function returned True,   *)
(* on the same file with the same targets, leaves the file as that run     *)
(* left it, loads exactly that font, and ends with False.                  *)
(***************************************************************************)
C5_Idempotent ==
    (run > 1 /\ prev.result = "True") =>
        /\ disk = prev.disk
        /\ font \in {NoFont, prev.disk.font}
        /\ pc = "exit" => result = "False"

\* the second run has ended after a first run that removed something
C5_Witness ==
    /\ run = 2 /\ prev.result = "True"
    /\ pc = "exit" /\ result = "False"
    /\ prev.disk.font # NoFont

(***************************************************************************)
(* C6: in fix_lxgw_halt_feature total_removals equals the total decrease   *)
(* of Coverage length over the subtables of the halt feature's lookups;    *)
(* a target glyph covered by two subtables is removed from both and        *)
(* counted twice.                                                          *)
(***************************************************************************)
Decrease(p) ==
    IF Sub0(p).hasCoverage THEN Len(Sub0(p).glyphs) - Len(Sub1(p).glyphs)
    ELSE 0

RECURSIVE SumDecrease(_)
SumDecrease(S) ==
    IF S = {} THEN 0
    ELSE LET p == CHOOSE q \in S : TRUE
         IN Decrease(p) + SumDecrease(S \ {p})

HaltSubPositions == {p \in SubPositions : p[1] \in HaltLookups}

C6_TotalRemovals ==
    (script = "lxgw" /\ loaded # NoFont) =>
        total_removals = SumDecrease(HaltSubPositions)

\* one resolved glyph, removed from two subtables
C6_Witness ==
    /\ script = "lxgw" /\ result = "True"
    /\ Cardinality(Resolved) = 1
    /\ total_removals = 2
    /\ Cardinality({p \in HaltSubPositions : Decrease(p) = 1}) = 2

(***************************************************************************)
(* C7: with a positioning table, a resolved target glyph and no record     *)
(* tagged "halt", the fix function returns False.  fix_lxgw_halt_feature   *)
(* logs the FeatureNotFound warning, distinct from the NoMatchingEntries   *)
(* warning it logs when a halt feature exists but covers no target;        *)
(* fix_halt_feature logs its NoMatchingEntries warning in both cases.      *)
(***************************************************************************)
NoHaltCase ==
    /\ result = "False"
    /\ loaded.hasGPOS /\ Resolved # {} /\ HaltRecords = {}

HaltNoMatchCase ==
    /\ result = "False"
    /\ loaded.hasGPOS /\ Resolved # {} /\ HaltRecords # {}

\* the claim as stated: FeatureNotFound is reported by both scripts
C7_Original ==
    /\ NoHaltCase => reason = "FeatureNotFound"
    /\ HaltNoMatchCase => reason = "NoMatchingEntries"

C7_Reasons ==
    /\ NoHaltCase =>
          reason = (IF script = "lxgw" THEN "FeatureNotFound"
                    ELSE "NoMatchingEntries")
    /\ HaltNoMatchCase => reason = "NoMatchingEntries"

\* the lxgw script has reported a missing halt feature among other records
C7_Witness ==
    /\ script = "lxgw" /\ NoHaltCase
    /\ reason = "FeatureNotFound"
    /\ loaded.FeatureRecord # <<>>

(***************************************************************************)
(* C8: the exit code is 0 when the fix function returned (True or False)   *)
(* and 1 on every failure; "changes applied" and "no changes needed" are   *)
(* told apart by the message only.                                         *)
(***************************************************************************)
OutcomeOf(res) ==
    IF res = "True" THEN "changed"
    ELSE IF res = "False" THEN "unchanged" ELSE "failure"

FailureMessages ==
    {"Usage", "FailedToLoad", "FontFileNotFound", "FailedToSave",
     "ErrorProcessing"}

\* the claim as stated: different outcomes of two runs give different exit
\* signals
C8_Original ==
    (run > 1 /\ pc = "exit" /\ OutcomeOf(prev.result) # OutcomeOf(result)) =>
        prev.exitCode # exitCode

C8_ExitCodes ==
    pc = "exit" =>
        /\ result = "True" => (exitCode = 0 /\ message = "FixCompleted")
        /\ result = "False" =>
              (exitCode = 0 /\ message = "NoModificationsNeeded")
        /\ result = "none" => (exitCode = 1 /\ message \in FailureMessages)

\* a failed run followed by a run that applied changes
C8_Witness ==
    /\ run > 1 /\ prev.exitCode = 1
    /\ pc = "exit" /\ exitCode = 0 /\ message = "FixCompleted"

(***************************************************************************)
(* C9: only the lookups of the first record tagged "halt" are scanned:     *)
(* every lookup that record does not reference stays as loaded, also when  *)
(* a later halt record references it and it covers a target glyph.         *)
(***************************************************************************)
C9_FirstMatch ==
    \A l \in 1..Len(loaded.Lookup) :
        l \notin HaltLookups => font.Lookup[l] = loaded.Lookup[l]

\* True was returned and a lookup of a later halt record still covers a
\* target glyph
C9_Witness ==
    /\ result = "True"
    /\ \E i, j \in HaltRecords :
          /\ i < j
          /\ \E k \in 1..Len(loaded.FeatureRecord[j].LookupListIndex) :
                LET l == loaded.FeatureRecord[j].LookupListIndex[k] + 1
                IN /\ l \in 1..Len(loaded.Lookup)
                   /\ l \notin HaltLookups
                   /\ \E s \in 1..Len(font.Lookup[l]) :
                         /\ font.Lookup[l][s].hasCoverage
                         /\ Range(font.Lookup[l][s].glyphs) \cap Resolved # {}

(***************************************************************************)
(* C10: when the target glyph is found in a subtable that claims format 2  *)
(* but has no Value list, or a Value list that ends before the glyph's     *)
(* position, the step removes the glyph from Coverage, counts it, leaves   *)
(* Value alone, raises nothing and goes on with the same subtable loop.    *)
(***************************************************************************)
DefensiveCase ==
    /\ pc = "targets" /\ ti <= Len(target_glyphs)
    /\ InCoverage(CurSub, CurGname)
    /\ LacksValue(CurSub, IndexOf(CurSub.glyphs, CurGname))

DefensiveEffect ==
    LET before == font.Lookup[CurIdx + 1][si]
        after == font'.Lookup[CurIdx + 1][si]
    IN /\ pc' = "targets" /\ exitCode' = -1
       /\ fi' = fi /\ li' = li /\ si' = si /\ ti' = ti + 1
       /\ CurGname \notin Range(after.glyphs)
       /\ Len(after.glyphs) = Len(before.glyphs) - 1
       /\ after.Value = before.Value /\ after.ValueCount = before.ValueCount
       /\ IF script = "lxgw" THEN total_removals' = total_removals + 1
          ELSE removed'

C10_DefensiveSkip == [][DefensiveCase => DefensiveEffect]_vars

\* a format-2 subtable without a usable value record lost a glyph, and so
\* did a subtable scanned after it
C10_Witness ==
    \E p, q \in HaltSubPositions :
        /\ (p[1] < q[1] \/ (p[1] = q[1] /\ p[2] < q[2]))
        /\ Sub0(p).hasCoverage /\ Sub0(p).Format = 2 /\ ~Sub0(p).hasValue
        /\ Decrease(p) > 0 /\ Sub1(p).Value = Sub0(p).Value
        /\ Decrease(q) > 0

(***************************************************************************)
(* C11: in one run the font is saved at most once; save_font is entered    *)
(* only from the end of the scan, when no target glyph is left in any      *)
(* subtable of the halt feature's lookups, and from there exactly when a   *)
(* coverage entry was removed; the fix function has returned True only     *)
(* with the save completed and the file holding the edited font, and       *)
(* a run that returned False or was aborted by a fault has saved nothing.  *)
(***************************************************************************)
AllScanned ==
    \A p \in HaltSubPositions :
        Sub1(p).hasCoverage => Range(Sub1(p).glyphs) \cap Resolved = {}

C11_Step ==
    /\ saves' <= 1
    /\ saves' > saves =>
          /\ pc = "save" /\ saves = 0
          /\ font # loaded /\ font' = font
          /\ disk' = [state |-> "ok", font |-> font]
          /\ result' = "True"
    /\ pc' = "save" => (pc = "after_scan" /\ AllScanned /\ saves = 0)
    /\ pc = "after_scan" => (pc' = "save" <=> font # loaded)
    /\ result' = "True" => (saves' = 1 /\ font' # loaded')
    /\ result' = "False" => (saves' = 0 /\ font' = loaded')
    /\ (pc' = "exit" /\ result' = "none") => saves' = 0

C11_SaveOrdering == [][C11_Step]_vars

\* True was returned after one save that followed the scan of two lookups
C11_Witness ==
    /\ pc = "returned" /\ result = "True" /\ saves = 1
    /\ Cardinality(HaltLookups) = 2
    /\ \A l \in HaltLookups : font.Lookup[l] # loaded.Lookup[l]
    /\ disk.font = font

====
